---- MODULE Spec2Model ----
(***************************************************************************)
(* Model of the log-anomaly detection service of src/src/main.rs: the      *)
(* process entry (main), the baseline initializer, the embedding client    *)
(* and the check_log request handler, together with the two external       *)
(* services they talk to (the embedding service and the vector store).     *)
(*                                                                         *)
(* Scores are cosine similarities in hundredths (0.70 is 70).  A vector    *)
(* of VECTOR_SIZE floats is abstracted to its length and its direction;    *)
(* the similarity of two vectors is a function of their directions.        *)
(***************************************************************************)
EXTENDS Integers, Sequences, FiniteSets, TLC

\* ------------------------------------------------------------ constants
VECTOR_SIZE == 1024

\* const ANOMALY_THRESHOLD: f32 = 0.70, in hundredths
ANOMALY_THRESHOLD == 70

\* The hardcoded seed corpus of initialize_qdrant_baseline.
normal_logs ==
    << "INFO: User 'admin' logged in successfully from IP 192.168.1.10",
       "INFO: Service 'database-connector' started successfully on port 5432",
       "DEBUG: Cache cleared for user session 'user123'",
       "INFO: GET /api/v1/users request processed in 25ms",
       "INFO: Scheduled backup job 'daily-backup' completed successfully." >>

\* ------------------------------------------------------------ bounds
\* Number of requests the clients send during one run of the process.
MaxRequests == 2

Reqs == 1..MaxRequests

\* The log entries clients submit: a seed, a near neighbour of a seed at
\* similarity exactly 0.70, an unrelated line and a whitespace-only string.
RequestLogs ==
    { normal_logs[1],
      "INFO: User 'root' logged in successfully from IP 192.168.1.11",
      "ZZZZZZZ",
      "   " }

\* The texts that are empty after trimming.
BlankLogs == { "", "   " }

\* The texts of the model that hold a character a JSON string must escape
\* (a double quote, a backslash or a control character).  No seed does.
JsonUnsafeLogs == { "say \"hi\"" }

\* Bodies a client may POST to /check_log.
RequestBodies ==
    [kind : {"json_ok"}, log_entry : RequestLogs]
      \cup [kind : {"missing_field", "non_string", "syntax_error"}, log_entry : {""}]

\* ------------------------------------------------------------ vectors
NoVector == [len |-> -1, dir |-> -1]

\* Lengths the embedding service may answer with: the right one, and the
\* empty array.
UpstreamLens == { VECTOR_SIZE, 0 }

\* The direction the (deterministic) embedding model gives a text.
TextDir(text) ==
    CASE text = normal_logs[1] -> 0
      [] text = normal_logs[2] -> 10
      [] text = normal_logs[3] -> 20
      [] text = normal_logs[4] -> 30
      [] text = normal_logs[5] -> 40
      [] text = "INFO: User 'root' logged in successfully from IP 192.168.1.11" -> 1
      [] text = "ZZZZZZZ" -> 90
      [] OTHER -> 60

Abs(x) == IF x < 0 THEN -x ELSE x

\* Cosine similarity, in hundredths, of two vectors, from the gap between
\* their directions: identical directions give 1.00, a gap of 1 exactly the
\* threshold, a gap of 2 just below it; far directions are negative.
Cosine(u, v) ==
    LET g == Abs(u.dir - v.dir)
    IN  IF g = 0 THEN 100
        ELSE IF g = 1 THEN 70
        ELSE IF g = 2 THEN 69
        ELSE IF g <= 20 THEN 60 - 3 * g
        ELSE IF g <= 45 THEN 40 - 2 * g
        ELSE -50

\* ------------------------------------------------------------ embedding service
\* What the embedding service may answer to POST /api/embeddings for the
\* prompt `text`: no answer at all (transport error), or an HTTP response
\* with a status and a body; the body is not JSON, JSON without an
\* "embedding" array, or JSON with one.
UpstreamResponses(text) ==
    { [kind |-> "transport_error", status |-> 0, body |-> "none", embedding |-> NoVector] }
      \cup { [kind |-> "http", status |-> 200, body |-> "embedding",
              embedding |-> [len |-> n, dir |-> TextDir(text)]] : n \in UpstreamLens }
      \cup { [kind |-> "http", status |-> 200, body |-> "not_json", embedding |-> NoVector],
             [kind |-> "http", status |-> 500, body |-> "no_embedding", embedding |-> NoVector],
             [kind |-> "http", status |-> 500, body |-> "embedding",
              embedding |-> [len |-> VECTOR_SIZE, dir |-> TextDir(text)]] }

\* get_embedding applied to the upstream's answer: send().await? fails on a
\* transport error, json::<OllamaEmbeddingResponse>().await? fails when the
\* body is not JSON holding an embedding array; otherwise Ok(response.embedding).
\* Neither the status nor the length of the array is looked at.
get_embedding(resp) ==
    IF resp.kind = "transport_error" THEN [ok |-> FALSE, value |-> NoVector]
    ELSE IF resp.body # "embedding" THEN [ok |-> FALSE, value |-> NoVector]
    ELSE [ok |-> TRUE, value |-> resp.embedding]

\* ------------------------------------------------------------ vector store
NoCollection == [exists |-> FALSE, size |-> 0, pts |-> {}]

EmptyCollection == [exists |-> TRUE, size |-> VECTOR_SIZE, pts |-> {}]

\* PointStruct::new(id, vector, payload)
PointStruct(id, vector, payload) == [id |-> id, vector |-> vector, payload |-> payload]

\* What the store may hold under COLLECTION_NAME when the process starts:
\* nothing, the baseline of an earlier run, or a stale point.
PriorCollections ==
    { NoCollection,
      [exists |-> TRUE, size |-> VECTOR_SIZE,
       pts |-> { PointStruct(7, [len |-> VECTOR_SIZE, dir |-> 90], [log |-> "stale"]) }],
      [exists |-> TRUE, size |-> VECTOR_SIZE,
       pts |-> { PointStruct(0, [len |-> VECTOR_SIZE, dir |-> 1], [log |-> "old seed"]) }] }

\* format!(r#"{{"log": "{}"}}"#, log) parsed by serde_json::from_str into a
\* Map: the text is spliced in unescaped, so the parse fails (or yields
\* another map) when the log holds a character JSON must escape.
FormatPayload(log) ==
    IF log \in JsonUnsafeLogs
    THEN [ok |-> FALSE, value |-> [log |-> ""]]
    ELSE [ok |-> TRUE, value |-> [log |-> log]]

RangeOf(seq) == { seq[k] : k \in 1..Len(seq) }

\* The store's upsert: insert or overwrite by id.
UpsertInto(pts, new) ==
    { p \in pts : \A q \in RangeOf(new) : q.id # p.id } \cup RangeOf(new)

\* The store rejects an upsert into an unknown collection or of a vector
\* whose length is not the collection's dimension.
UpsertAccepted(c, new) ==
    /\ c.exists
    /\ \A q \in RangeOf(new) : q.vector.len = c.size

ScoredPoint(p, q) == [id |-> p.id, score |-> Cosine(q, p.vector), payload |-> p.payload]

\* The answers the store may give to search_points with limit 1: an error
\* (always possible: the store is unreachable; the only answer when the
\* collection is unknown or the query has the wrong dimension), or the
\* result list, holding a nearest point when the collection has points.
SearchOutcomes(c, q) ==
    { [ok |-> FALSE, result |-> << >>] }
      \cup (IF ~c.exists \/ q.len # c.size THEN {}
            ELSE IF c.pts = {} THEN { [ok |-> TRUE, result |-> << >>] }
            ELSE { [ok |-> TRUE, result |-> << ScoredPoint(p, q) >>] :
                     p \in { p \in c.pts :
                               \A o \in c.pts : Cosine(q, o.vector) <= Cosine(q, p.vector) } })

\* ------------------------------------------------------------ state
VARIABLES
    pc,         \* where main is: init_delete, init_create, init_embed,
                \* init_upsert, bind, serving, exited
    exitCode,   \* -1 while the process runs, else its exit code
    listener,   \* TRUE once the TCP listener is bound
    seedIdx,    \* the loop of initialize_qdrant_baseline: next seed (1-based)
    points,     \* its local Vec of points
    coll,       \* the store's collection COLLECTION_NAME
    initLog,    \* the steps initialization has taken, in order, with their outcome
    upsertReq,  \* the UpsertPoints request initialization sent, and its outcome
    reqs        \* per request: the handler task's position and locals

vars == << pc, exitCode, listener, seedIdx, points, coll, initLog, upsertReq, reqs >>

NoResponse ==
    [status |-> 0, message |-> "", is_anomalous |-> FALSE, score |-> 0, log_entry |-> ""]

NoUpstream == [kind |-> "none", status |-> 0, body |-> "none", embedding |-> NoVector]

NoBody == [kind |-> "none", log_entry |-> ""]

IdleRequest ==
    [pc |-> "idle", body |-> NoBody, upstream |-> NoUpstream, vector |-> NoVector,
     search |-> "none", result |-> << >>, resp |-> NoResponse,
     embedCalls |-> 0, searchCalls |-> 0]

\* One step of initialization: the call (or the payload construction), the
\* seed it is for, and whether it succeeded.
Step(op, seed, ok) == [op |-> op, seed |-> seed, ok |-> ok]

NoUpsert == [sent |-> FALSE, points |-> << >>, wait |-> FALSE, ok |-> FALSE]

Init ==
    /\ pc = "init_delete"
    /\ exitCode = -1
    /\ listener = FALSE
    /\ seedIdx = 1
    /\ points = << >>
    /\ coll \in PriorCollections
    /\ initLog = << >>
    /\ upsertReq = NoUpsert
    /\ reqs = [r \in Reqs |-> IdleRequest]

\* ------------------------------------------------------------ main
\* `?` on an Err in main or in initialize_qdrant_baseline: main returns the
\* error and the process exits with a failure code.
ExitFailure ==
    /\ pc' = "exited"
    /\ exitCode' = 1

\* The delete step of initialization, with what the store answered:
\* "deleted", "absent" (there was no such collection) or "unreachable".
DeleteStep(answer) ==
    [op |-> "delete", seed |-> 0, ok |-> answer = "deleted", answer |-> answer]

\* let _ = delete_collection(COLLECTION_NAME).await;  the result is dropped,
\* whatever it is.
InitDelete ==
    /\ pc = "init_delete"
    /\ \E fail \in BOOLEAN :
         /\ coll' = IF fail THEN coll ELSE NoCollection
         /\ initLog' = Append(initLog,
                              DeleteStep(IF fail THEN "unreachable"
                                         ELSE IF coll.exists THEN "deleted" ELSE "absent"))
    /\ pc' = "init_create"
    /\ UNCHANGED << exitCode, listener, seedIdx, points, upsertReq, reqs >>

\* InitCreate creating the collection only when it is absent, and going on
\* with the one that exists.
InitCreate_ifAbsent ==
    /\ pc = "init_create"
    /\ \E fail \in BOOLEAN :
         IF fail
         THEN /\ initLog' = Append(initLog, Step("create", 0, FALSE))
              /\ ExitFailure
              /\ UNCHANGED coll
         ELSE /\ initLog' = Append(initLog, Step("create", 0, TRUE))
              /\ coll' = IF coll.exists THEN coll ELSE EmptyCollection
              /\ pc' = "init_embed"
              /\ UNCHANGED exitCode
    /\ UNCHANGED << listener, seedIdx, points, upsertReq, reqs >>

\* create_collection(..).await?  The store refuses to create a collection
\* that exists (the delete before it failed), and may be unreachable.
InitCreate ==
    /\ pc = "init_create"
    /\ \E fail \in BOOLEAN :
         IF fail \/ coll.exists
         THEN /\ initLog' = Append(initLog, Step("create", 0, FALSE))
              /\ ExitFailure
              /\ UNCHANGED coll
         ELSE /\ initLog' = Append(initLog, Step("create", 0, TRUE))
              /\ coll' = EmptyCollection
              /\ pc' = "init_embed"
              /\ UNCHANGED exitCode
    /\ UNCHANGED << listener, seedIdx, points, upsertReq, reqs >>

\* InitSeed skipping a seed whose embedding fails (if let Ok(vector) = ..).
InitSeed_skipFailed ==
    /\ pc = "init_embed"
    /\ LET log == normal_logs[seedIdx]
       IN  \E resp \in UpstreamResponses(log) :
             LET e == get_embedding(resp)
                 payload == FormatPayload(log)
             IN  /\ initLog' =
                        IF e.ok
                        THEN initLog \o << Step("embed", seedIdx - 1, TRUE),
                                           Step("payload", seedIdx - 1, payload.ok) >>
                        ELSE Append(initLog, Step("embed", seedIdx - 1, FALSE))
                 /\ points' = IF e.ok /\ payload.ok
                              THEN Append(points, PointStruct(seedIdx - 1, e.value, payload.value))
                              ELSE points
                 /\ seedIdx' = seedIdx + 1
                 /\ pc' = IF seedIdx = Len(normal_logs) THEN "init_upsert" ELSE "init_embed"
    /\ UNCHANGED << exitCode, listener, coll, upsertReq, reqs >>

\* InitSeed embedding the first log at every turn (normal_logs[0] for log).
InitSeed_firstLogOnly ==
    /\ pc = "init_embed"
    /\ LET log == normal_logs[seedIdx]
       IN  \E resp \in UpstreamResponses(normal_logs[1]) :
             LET e == get_embedding(resp)
                 payload == FormatPayload(log)
             IN  /\ initLog' =
                        IF e.ok
                        THEN initLog \o << Step("embed", seedIdx - 1, TRUE),
                                           Step("payload", seedIdx - 1, payload.ok) >>
                        ELSE Append(initLog, Step("embed", seedIdx - 1, FALSE))
                 /\ IF ~e.ok \/ ~payload.ok
                    THEN /\ ExitFailure
                         /\ UNCHANGED << seedIdx, points >>
                    ELSE /\ points' = Append(points, PointStruct(seedIdx - 1, e.value, payload.value))
                         /\ seedIdx' = seedIdx + 1
                         /\ pc' = IF seedIdx = Len(normal_logs) THEN "init_upsert" ELSE "init_embed"
                         /\ UNCHANGED exitCode
    /\ UNCHANGED << listener, coll, upsertReq, reqs >>

\* InitSeed numbering the points from one.
InitSeed_oneBasedIds ==
    /\ pc = "init_embed"
    /\ LET log == normal_logs[seedIdx]
       IN  \E resp \in UpstreamResponses(log) :
             LET e == get_embedding(resp)
                 payload == FormatPayload(log)
             IN  /\ initLog' =
                        IF e.ok
                        THEN initLog \o << Step("embed", seedIdx - 1, TRUE),
                                           Step("payload", seedIdx - 1, payload.ok) >>
                        ELSE Append(initLog, Step("embed", seedIdx - 1, FALSE))
                 /\ IF ~e.ok \/ ~payload.ok
                    THEN /\ ExitFailure
                         /\ UNCHANGED << seedIdx, points >>
                    ELSE /\ points' = Append(points, PointStruct(seedIdx, e.value, payload.value))
                         /\ seedIdx' = seedIdx + 1
                         /\ pc' = IF seedIdx = Len(normal_logs) THEN "init_upsert" ELSE "init_embed"
                         /\ UNCHANGED exitCode
    /\ UNCHANGED << listener, coll, upsertReq, reqs >>

\* InitSeed upserting each point as soon as it is built.
InitSeed_upsertsEach ==
    /\ pc = "init_embed"
    /\ LET log == normal_logs[seedIdx]
       IN  \E resp \in UpstreamResponses(log) :
             LET e == get_embedding(resp)
                 payload == FormatPayload(log)
                 point == PointStruct(seedIdx - 1, e.value, payload.value)
             IN  /\ initLog' =
                        IF e.ok
                        THEN initLog \o << Step("embed", seedIdx - 1, TRUE),
                                           Step("payload", seedIdx - 1, payload.ok) >>
                        ELSE Append(initLog, Step("embed", seedIdx - 1, FALSE))
                 /\ IF ~e.ok \/ ~payload.ok
                    THEN /\ ExitFailure
                         /\ UNCHANGED << seedIdx, points, coll >>
                    ELSE /\ points' = Append(points, point)
                         /\ coll' = IF UpsertAccepted(coll, << point >>)
                                    THEN [coll EXCEPT !.pts = UpsertInto(@, << point >>)]
                                    ELSE coll
                         /\ seedIdx' = seedIdx + 1
                         /\ pc' = IF seedIdx = Len(normal_logs) THEN "init_upsert" ELSE "init_embed"
                         /\ UNCHANGED exitCode
    /\ UNCHANGED << listener, upsertReq, reqs >>

\* One turn of the loop over normal_logs: get_embedding(..).await?, the
\* payload from the formatted JSON text (?), points.push(PointStruct::new(i, ..)).
InitSeed ==
    /\ pc = "init_embed"
    /\ LET log == normal_logs[seedIdx]
       IN  \E resp \in UpstreamResponses(log) :
             LET e == get_embedding(resp)
                 payload == FormatPayload(log)
             IN  /\ initLog' =
                        IF e.ok
                        THEN initLog \o << Step("embed", seedIdx - 1, TRUE),
                                           Step("payload", seedIdx - 1, payload.ok) >>
                        ELSE Append(initLog, Step("embed", seedIdx - 1, FALSE))
                 /\ IF ~e.ok \/ ~payload.ok
                    THEN /\ ExitFailure
                         /\ UNCHANGED << seedIdx, points >>
                    ELSE /\ points' = Append(points, PointStruct(seedIdx - 1, e.value, payload.value))
                         /\ seedIdx' = seedIdx + 1
                         /\ pc' = IF seedIdx = Len(normal_logs) THEN "init_upsert" ELSE "init_embed"
                         /\ UNCHANGED exitCode
    /\ UNCHANGED << listener, coll, upsertReq, reqs >>

\* InitUpsert with the result of the upsert dropped, as the delete's is.
InitUpsert_resultDropped ==
    /\ pc = "init_upsert"
    /\ \E fail \in BOOLEAN :
         LET accepted == ~fail /\ UpsertAccepted(coll, points)
         IN  /\ initLog' = Append(initLog, Step("upsert", 0, accepted))
             /\ upsertReq' = [sent |-> TRUE, points |-> points, wait |-> TRUE, ok |-> accepted]
             /\ coll' = IF accepted THEN [coll EXCEPT !.pts = UpsertInto(@, points)] ELSE coll
             /\ pc' = "bind"
    /\ UNCHANGED << exitCode, listener, seedIdx, points, reqs >>

\* upsert_points(UpsertPoints { points, wait: Some(true), .. }).await?
\* then Ok(()): main goes on to bind the listener.
InitUpsert ==
    /\ pc = "init_upsert"
    /\ \E fail \in BOOLEAN :
         LET accepted == ~fail /\ UpsertAccepted(coll, points)
         IN  /\ initLog' = Append(initLog, Step("upsert", 0, accepted))
             /\ upsertReq' = [sent |-> TRUE, points |-> points, wait |-> TRUE, ok |-> accepted]
             /\ IF accepted
                THEN /\ coll' = [coll EXCEPT !.pts = UpsertInto(@, points)]
                     /\ pc' = "bind"
                     /\ UNCHANGED exitCode
                ELSE /\ ExitFailure
                     /\ UNCHANGED coll
    /\ UNCHANGED << listener, seedIdx, points, reqs >>

\* TcpListener::bind("127.0.0.1:8080").await?  then axum::serve(listener, app).
MainBind ==
    /\ pc = "bind"
    /\ \E fail \in BOOLEAN :
         IF fail
         THEN /\ ExitFailure
              /\ UNCHANGED listener
         ELSE /\ listener' = TRUE
              /\ pc' = "serving"
              /\ UNCHANGED exitCode
    /\ UNCHANGED << seedIdx, points, coll, initLog, upsertReq, reqs >>

\* ------------------------------------------------------------ check_log_handler
\* JsonExtract with log_entry declared #[serde(default)]: a body without
\* the field deserializes, to the empty string.
JsonExtract_serdeDefault(body) ==
    IF body.kind \in {"json_ok", "missing_field"} THEN [ok |-> TRUE, status |-> 0]
    ELSE IF body.kind = "syntax_error" THEN [ok |-> FALSE, status |-> 400]
    ELSE [ok |-> FALSE, status |-> 422]

\* The Json<CheckLogRequest> extractor of the handler's signature.  A body
\* that is JSON but does not deserialize into CheckLogRequest (log_entry
\* missing or not a string) is rejected with 422 Unprocessable Entity, a
\* body that is not JSON with 400 Bad Request; the handler body runs only
\* on a CheckLogRequest.
JsonExtract(body) ==
    IF body.kind = "json_ok" THEN [ok |-> TRUE, status |-> 0]
    ELSE IF body.kind = "syntax_error" THEN [ok |-> FALSE, status |-> 400]
    ELSE [ok |-> FALSE, status |-> 422]

\* (StatusCode::INTERNAL_SERVER_ERROR, message).into_response()
ErrorResponse(message) == [NoResponse EXCEPT !.status = 500, !.message = message]

\* Decide with the comparison written `score > ANOMALY_THRESHOLD`.
Decide_strictlyAbove(result) ==
    IF Len(result) = 0
    THEN [is_anomalous |-> TRUE, score |-> 0]
    ELSE [is_anomalous |-> ~(result[1].score > ANOMALY_THRESHOLD), score |-> result[1].score]

\* Decide with is_anomalous initialised to false.
Decide_defaultNormal(result) ==
    IF Len(result) = 0
    THEN [is_anomalous |-> FALSE, score |-> 0]
    ELSE [is_anomalous |-> ~(result[1].score >= ANOMALY_THRESHOLD), score |-> result[1].score]

\* let mut score = 0.0; let mut is_anomalous = true;
\* if let Some(closest_point) = result.into_iter().next() {
\*     score = closest_point.score;
\*     if score >= ANOMALY_THRESHOLD { is_anomalous = false; } }
Decide(result) ==
    IF Len(result) = 0
    THEN [is_anomalous |-> TRUE, score |-> 0]
    ELSE [is_anomalous |-> ~(result[1].score >= ANOMALY_THRESHOLD), score |-> result[1].score]

\* AnomalyResponse echoing the log of the neighbour's payload.
AnomalyResponse_neighbourLog(q) ==
    LET v == Decide(q.result)
    IN  [status |-> 200, message |-> "", is_anomalous |-> v.is_anomalous,
         score |-> v.score,
         log_entry |-> IF Len(q.result) = 0 THEN q.body.log_entry
                       ELSE q.result[1].payload.log]

\* Json(AnomalyResponse { is_anomalous, score, log_entry: payload.log_entry })
AnomalyResponse(q) ==
    LET v == Decide(q.result)
    IN  [status |-> 200, message |-> "", is_anomalous |-> v.is_anomalous,
         score |-> v.score, log_entry |-> q.body.log_entry]

\* A request reaches the router: the extractor runs, and rejects the
\* request or hands the payload to the handler body.  Requests are served
\* only once axum::serve runs.
Extract(r, body) ==
    /\ pc = "serving"
    /\ reqs[r].pc = "idle"
    /\ LET x == JsonExtract(body)
       IN  reqs' = [reqs EXCEPT ![r] =
                      IF x.ok
                      THEN [@ EXCEPT !.pc = "embed", !.body = body]
                      ELSE [@ EXCEPT !.pc = "done", !.body = body,
                                     !.resp = [NoResponse EXCEPT !.status = x.status]]]
    /\ UNCHANGED << pc, exitCode, listener, seedIdx, points, coll, initLog, upsertReq >>

\* HandlerEmbed going on with an empty vector when get_embedding fails
\* (unwrap_or_default).
HandlerEmbed_unwrapOrDefault(r) ==
    /\ reqs[r].pc = "embed"
    /\ \E resp \in UpstreamResponses(reqs[r].body.log_entry) :
         LET e == get_embedding(resp)
         IN  reqs' = [reqs EXCEPT ![r] =
                        [@ EXCEPT !.pc = "search", !.upstream = resp, !.embedCalls = @ + 1,
                                  !.vector = IF e.ok THEN e.value
                                             ELSE [len |-> 0, dir |-> 0]]]
    /\ UNCHANGED << pc, exitCode, listener, seedIdx, points, coll, initLog, upsertReq >>

\* HandlerEmbed calling get_embedding a second time when the first call fails.
HandlerEmbed_retryOnce(r) ==
    /\ reqs[r].pc = "embed"
    /\ \E resp \in UpstreamResponses(reqs[r].body.log_entry) :
         LET e == get_embedding(resp)
         IN  reqs' = [reqs EXCEPT ![r] =
                        IF e.ok
                        THEN [@ EXCEPT !.pc = "search", !.upstream = resp,
                                       !.embedCalls = @ + 1, !.vector = e.value]
                        ELSE IF reqs[r].embedCalls = 0
                        THEN [@ EXCEPT !.upstream = resp, !.embedCalls = @ + 1]
                        ELSE [@ EXCEPT !.pc = "done", !.upstream = resp,
                                       !.embedCalls = @ + 1,
                                       !.resp = ErrorResponse("Failed to get embedding")]]
    /\ UNCHANGED << pc, exitCode, listener, seedIdx, points, coll, initLog, upsertReq >>

\* HandlerEmbed with a shared breaker: when one embedding call fails, every
\* request in flight is answered 500.
HandlerEmbed_failsAllInFlight(r) ==
    /\ reqs[r].pc = "embed"
    /\ \E resp \in UpstreamResponses(reqs[r].body.log_entry) :
         LET e == get_embedding(resp)
         IN  reqs' = [t \in Reqs |->
                        IF t = r
                        THEN IF e.ok
                             THEN [reqs[r] EXCEPT !.pc = "search", !.upstream = resp,
                                                  !.embedCalls = @ + 1, !.vector = e.value]
                             ELSE [reqs[r] EXCEPT !.pc = "done", !.upstream = resp,
                                                  !.embedCalls = @ + 1,
                                                  !.resp = ErrorResponse("Failed to get embedding")]
                        ELSE IF ~e.ok /\ reqs[t].pc \in {"embed", "search"}
                             THEN [reqs[t] EXCEPT !.pc = "done",
                                                  !.resp = ErrorResponse("Failed to get embedding")]
                             ELSE reqs[t]]
    /\ UNCHANGED << pc, exitCode, listener, seedIdx, points, coll, initLog, upsertReq >>

\* let vector = match get_embedding(.., &payload.log_entry).await { Ok(v) => v,
\*     Err(e) => return (500, "Failed to get embedding") };
HandlerEmbed(r) ==
    /\ reqs[r].pc = "embed"
    /\ \E resp \in UpstreamResponses(reqs[r].body.log_entry) :
         LET e == get_embedding(resp)
         IN  reqs' = [reqs EXCEPT ![r] =
                        IF e.ok
                        THEN [@ EXCEPT !.pc = "search", !.upstream = resp,
                                       !.embedCalls = @ + 1, !.vector = e.value]
                        ELSE [@ EXCEPT !.pc = "done", !.upstream = resp,
                                       !.embedCalls = @ + 1,
                                       !.resp = ErrorResponse("Failed to get embedding")]]
    /\ UNCHANGED << pc, exitCode, listener, seedIdx, points, coll, initLog, upsertReq >>

\* HandlerSearch taking a failed search for an empty result (unwrap_or_default).
HandlerSearch_unwrapOrDefault(r) ==
    /\ reqs[r].pc = "search"
    /\ \E out \in SearchOutcomes(coll, reqs[r].vector) :
         LET q == [reqs[r] EXCEPT !.search = IF out.ok THEN "ok" ELSE "err",
                                  !.searchCalls = @ + 1, !.result = out.result]
         IN  reqs' = [reqs EXCEPT ![r] = [q EXCEPT !.pc = "done", !.resp = AnomalyResponse(q)]]
    /\ UNCHANGED << pc, exitCode, listener, seedIdx, points, coll, initLog, upsertReq >>

\* HandlerSearch unwrapping the search result: a failed search panics the
\* request's task, which ends without a response.
HandlerSearch_unwrap(r) ==
    /\ reqs[r].pc = "search"
    /\ \E out \in SearchOutcomes(coll, reqs[r].vector) :
         LET q == [reqs[r] EXCEPT !.search = IF out.ok THEN "ok" ELSE "err",
                                  !.searchCalls = @ + 1, !.result = out.result]
         IN  reqs' = [reqs EXCEPT ![r] =
                        IF out.ok
                        THEN [q EXCEPT !.pc = "done", !.resp = AnomalyResponse(q)]
                        ELSE [q EXCEPT !.pc = "done"]]
    /\ UNCHANGED << pc, exitCode, listener, seedIdx, points, coll, initLog, upsertReq >>

\* HandlerSearch adding the log it judged normal to the collection.
HandlerSearch_learnsNormal(r) ==
    /\ reqs[r].pc = "search"
    /\ \E out \in SearchOutcomes(coll, reqs[r].vector) :
         LET q == [reqs[r] EXCEPT !.search = IF out.ok THEN "ok" ELSE "err",
                                  !.searchCalls = @ + 1, !.result = out.result]
         IN  /\ reqs' = [reqs EXCEPT ![r] =
                           IF out.ok
                           THEN [q EXCEPT !.pc = "done", !.resp = AnomalyResponse(q)]
                           ELSE [q EXCEPT !.pc = "done",
                                          !.resp = ErrorResponse("Qdrant search failed")]]
             /\ coll' = IF out.ok /\ ~AnomalyResponse(q).is_anomalous
                        THEN [coll EXCEPT !.pts = UpsertInto(@,
                                 << PointStruct(Len(normal_logs), q.vector,
                                                [log |-> q.body.log_entry]) >>)]
                        ELSE coll
    /\ UNCHANGED << pc, exitCode, listener, seedIdx, points, initLog, upsertReq >>

\* let search_result = match search_points(SearchPoints { vector, limit: 1, .. }).await {
\*     Ok(res) => res, Err(e) => return (500, "Qdrant search failed") };
\* and, with no await in between, the threshold decision and the 200 response.
HandlerSearch(r) ==
    /\ reqs[r].pc = "search"
    /\ \E out \in SearchOutcomes(coll, reqs[r].vector) :
         LET q == [reqs[r] EXCEPT !.search = IF out.ok THEN "ok" ELSE "err",
                                  !.searchCalls = @ + 1, !.result = out.result]
         IN  reqs' = [reqs EXCEPT ![r] =
                        IF out.ok
                        THEN [q EXCEPT !.pc = "done", !.resp = AnomalyResponse(q)]
                        ELSE [q EXCEPT !.pc = "done",
                                       !.resp = ErrorResponse("Qdrant search failed")]]
    /\ UNCHANGED << pc, exitCode, listener, seedIdx, points, coll, initLog, upsertReq >>

\* ------------------------------------------------------------ other clients of the store
\* Another instance of this program starting against the same store runs
\* the same delete and create, which leaves the collection empty ...
OtherInstanceReplace ==
    /\ pc = "serving"
    /\ coll.pts # {}
    /\ coll' = EmptyCollection
    /\ UNCHANGED << pc, exitCode, listener, seedIdx, points, initLog, upsertReq, reqs >>

\* ... and then upserts the same seeds.
OtherInstanceUpsert ==
    /\ pc = "serving"
    /\ coll = EmptyCollection
    /\ coll' = [coll EXCEPT !.pts = UpsertInto(@, upsertReq.points)]
    /\ UNCHANGED << pc, exitCode, listener, seedIdx, points, initLog, upsertReq, reqs >>

\* ------------------------------------------------------------ specifications
Next ==
    \/ InitDelete
    \/ InitCreate
    \/ InitSeed
    \/ InitUpsert
    \/ MainBind
    \/ \E r \in Reqs : \E body \in RequestBodies : Extract(r, body)
    \/ \E r \in Reqs : HandlerEmbed(r)
    \/ \E r \in Reqs : HandlerSearch(r)

\* The process alone: nothing else writes to the store.
Spec == Init /\ [][Next]_vars

NextShared ==
    \/ Next
    \/ OtherInstanceReplace
    \/ OtherInstanceUpsert

\* The process with other instances sharing the store.
SpecShared == Init /\ [][NextShared]_vars

\* Requests that submit the seed logs themselves.
SeedBodies == [kind : {"json_ok"}, log_entry : RangeOf(normal_logs)]

NextSeeds ==
    \/ InitDelete
    \/ InitCreate
    \/ InitSeed
    \/ InitUpsert
    \/ MainBind
    \/ \E r \in Reqs : \E body \in SeedBodies : Extract(r, body)
    \/ \E r \in Reqs : HandlerEmbed(r)
    \/ \E r \in Reqs : HandlerSearch(r)

\* The process alone, with clients that submit seed logs.
SpecSeeds == Init /\ [][NextSeeds]_vars

\* Number of times the process is started against the same store.
MaxRuns == 2

\* How many runs precede this one: a restarted process's log opens with a
\* "restart" step carrying that number and whether the run before it had
\* completed its initialization.
RunNo == IF Len(initLog) > 0 /\ initLog[1].op = "restart" THEN initLog[1].seed ELSE 0

\* The process has ended, or is stopped, and is started again: main runs
\* from its first line, against what the store now holds.
ProcessRestart ==
    /\ pc \in {"exited", "bind", "serving"}
    /\ RunNo + 1 < MaxRuns
    /\ pc' = "init_delete"
    /\ exitCode' = -1
    /\ listener' = FALSE
    /\ seedIdx' = 1
    /\ points' = << >>
    /\ initLog' = << Step("restart", RunNo + 1, upsertReq.ok) >>
    /\ upsertReq' = NoUpsert
    /\ reqs' = [r \in Reqs |-> IdleRequest]
    /\ UNCHANGED coll

NextRestart ==
    \/ InitDelete
    \/ InitCreate
    \/ InitSeed
    \/ InitUpsert
    \/ MainBind
    \/ ProcessRestart

\* Successive runs of the process against the same store.
SpecRestart == Init /\ [][NextRestart]_vars

\* Bodies that take each path into the handler: one the extractor accepts
\* and one it rejects.
FairBodies ==
    [kind : {"json_ok"}, log_entry : {normal_logs[1]}]
      \cup [kind : {"syntax_error"}, log_entry : {""}]

NextFair ==
    \/ InitDelete
    \/ InitCreate
    \/ InitSeed
    \/ InitUpsert
    \/ MainBind
    \/ \E r \in Reqs : \E body \in FairBodies : Extract(r, body)
    \/ \E r \in Reqs : HandlerEmbed(r)
    \/ \E r \in Reqs : HandlerSearch(r)

\* The process alone, where every upstream call a request has issued returns:
\* the runtime resumes the handler's future once the awaited call completes.
SpecFair ==
    /\ Init /\ [][NextFair]_vars
    /\ \A r \in Reqs : WF_vars(HandlerEmbed(r)) /\ WF_vars(HandlerSearch(r))

\* ------------------------------------------------------------ properties
Responded200(r) == reqs[r].pc = "done" /\ reqs[r].resp.status = 200

EmbedFailed(r) == reqs[r].embedCalls > 0 /\ ~get_embedding(reqs[r].upstream).ok

InitSteps == { "init_delete", "init_create", "init_embed", "init_upsert" }

\* C1 (threshold law): in every 200 response whose search returned a
\* neighbour, score is that neighbour's score and is_anomalous is exactly
\* score < ANOMALY_THRESHOLD; a score equal to the threshold is not anomalous.
ThresholdLaw ==
    \A r \in Reqs :
        (Responded200(r) /\ Len(reqs[r].result) >= 1) =>
            /\ reqs[r].resp.score = reqs[r].result[1].score
            /\ reqs[r].resp.is_anomalous = (reqs[r].resp.score < ANOMALY_THRESHOLD)
            /\ (reqs[r].result[1].score = ANOMALY_THRESHOLD => ~reqs[r].resp.is_anomalous)

\* Two 200 responses, one at exactly the threshold and one below it.
ThresholdLaw_witness ==
    \E r, t \in Reqs :
        /\ Responded200(r) /\ Len(reqs[r].result) = 1
        /\ reqs[r].result[1].score = ANOMALY_THRESHOLD /\ ~reqs[r].resp.is_anomalous
        /\ Responded200(t) /\ Len(reqs[t].result) = 1
        /\ reqs[t].result[1].score < ANOMALY_THRESHOLD /\ reqs[t].resp.is_anomalous

\* C2 (empty-collection law): when the embedding and the search both
\* succeed and the search returns no neighbour, the response is 200 with
\* score 0.0 and is_anomalous true.
EmptyCollectionLaw ==
    \A r \in Reqs :
        (reqs[r].pc = "done" /\ reqs[r].search = "ok" /\ Len(reqs[r].result) = 0) =>
            /\ reqs[r].resp.status = 200
            /\ reqs[r].resp.score = 0
            /\ reqs[r].resp.is_anomalous

\* A request answered from a collection that exists and holds no point.
EmptyCollectionLaw_witness ==
    \E r \in Reqs :
        /\ Responded200(r) /\ reqs[r].search = "ok" /\ Len(reqs[r].result) = 0
        /\ coll = EmptyCollection

\* C3 (echo law): every 200 response carries the log_entry of the request
\* that produced it, whatever the other requests are doing.
EchoLaw ==
    \A r \in Reqs :
        Responded200(r) => reqs[r].resp.log_entry = reqs[r].body.log_entry

\* Two requests with different log entries, both answered 200.
EchoLaw_witness ==
    \E r, t \in Reqs :
        /\ Responded200(r) /\ Responded200(t)
        /\ reqs[r].body.log_entry # reqs[t].body.log_entry
        /\ reqs[r].resp.log_entry = "ZZZZZZZ"

\* C4 (initialization precedes serving): the listener is bound, and a
\* request is handled, only after the upsert with wait=true has succeeded;
\* while initialization runs the listener is unbound and no request is
\* being handled.
InitBeforeServing ==
    /\ (listener \/ pc \in {"bind", "serving"}) =>
           upsertReq.sent /\ upsertReq.ok /\ upsertReq.wait
    /\ \A r \in Reqs :
           reqs[r].pc # "idle" => listener /\ pc = "serving" /\ upsertReq.ok
    /\ pc \in InitSteps => ~listener /\ \A r \in Reqs : reqs[r].pc = "idle"

\* A request answered while the process serves.
InitBeforeServing_witness ==
    /\ pc = "serving" /\ listener
    /\ \E r \in Reqs : Responded200(r)

\* C5: a request whose embedding call fails is answered 500 "Failed to get
\* embedding" and issues no call to the vector store.
EmbedFailureIs500 ==
    \A r \in Reqs :
        EmbedFailed(r) =>
            /\ reqs[r].pc = "done"
            /\ reqs[r].resp = ErrorResponse("Failed to get embedding")
            /\ reqs[r].searchCalls = 0

\* A request whose embedding call met a transport error.
EmbedFailureIs500_witness ==
    \E r \in Reqs :
        /\ reqs[r].upstream.kind = "transport_error"
        /\ reqs[r].resp.status = 500

\* C6: a request whose embedding succeeds and whose search fails is
\* answered 500 "Qdrant search failed", never 200.
SearchFailureIs500 ==
    \A r \in Reqs :
        reqs[r].search = "err" =>
            /\ get_embedding(reqs[r].upstream).ok
            /\ reqs[r].pc = "done"
            /\ reqs[r].resp = ErrorResponse("Qdrant search failed")
            /\ reqs[r].resp.status # 200

\* A request whose search failed after its embedding succeeded.
SearchFailureIs500_witness ==
    \E r \in Reqs :
        /\ reqs[r].search = "err" /\ reqs[r].searchCalls = 1
        /\ reqs[r].vector.len = VECTOR_SIZE
        /\ reqs[r].resp.status = 500

\* A request whose JSON body lacks log_entry or carries a non-string one.
MalformedBody(r) == reqs[r].body.kind \in {"missing_field", "non_string"}

BlankLogEntryRejected ==
    \A r \in Reqs :
        (reqs[r].body.kind = "json_ok" /\ reqs[r].body.log_entry \in BlankLogs) =>
            /\ reqs[r].embedCalls = 0
            /\ reqs[r].pc = "done" => reqs[r].resp.status = 400

\* C9 as stated: every vector get_embedding returns has length VECTOR_SIZE,
\* so every vector put in a point to upsert or used as a search query has.
DimensionInvariant ==
    /\ \A r \in Reqs :
           (reqs[r].embedCalls > 0 /\ reqs[r].upstream.body = "embedding"
                /\ reqs[r].upstream.embedding.len # VECTOR_SIZE) =>
               (reqs[r].pc = "done" /\ reqs[r].searchCalls = 0)
    /\ \A r \in Reqs : reqs[r].searchCalls > 0 => reqs[r].vector.len = VECTOR_SIZE
    /\ \A k \in 1..Len(points) : points[k].vector.len = VECTOR_SIZE
    /\ \A k \in 1..Len(upsertReq.points) : upsertReq.points[k].vector.len = VECTOR_SIZE

\* Some step of initialization other than the delete has failed.
InitFailed ==
    \E k \in 1..Len(initLog) :
        initLog[k].op \in {"create", "embed", "payload", "upsert"} /\ ~initLog[k].ok

\* C10: once the creation of the collection, the embedding of a seed, the
\* construction of a payload or the upsert has failed, the process has
\* exited with a failure code, the listener is not bound and no request is
\* ever handled.
InitFailureIsFatal ==
    InitFailed =>
        /\ pc = "exited"
        /\ exitCode = 1
        /\ ~listener
        /\ \A r \in Reqs : reqs[r].pc = "idle"

\* Initialization stopped at the embedding of the third seed.
InitFailureIsFatal_witness ==
    /\ pc = "exited"
    /\ Len(initLog) > 0
    /\ initLog[Len(initLog)] = Step("embed", 2, FALSE)


\* C11 (seed self-similarity): after a successful initialization, a request
\* that submits a seed log and whose embedding and search succeed is
\* answered 200 with the maximal score 1.0 and is_anomalous false.
SeedSelfSimilarity ==
    \A r \in Reqs :
        (reqs[r].body.kind = "json_ok" /\ reqs[r].body.log_entry \in RangeOf(normal_logs)
             /\ reqs[r].search = "ok") =>
            /\ reqs[r].pc = "done"
            /\ reqs[r].resp.status = 200
            /\ reqs[r].resp.score = 100
            /\ ~reqs[r].resp.is_anomalous
            /\ reqs[r].resp.log_entry = reqs[r].body.log_entry

\* The first and the last seed submitted, both answered.
SeedSelfSimilarity_witness ==
    \E r, t \in Reqs :
        /\ Responded200(r) /\ reqs[r].body.log_entry = normal_logs[1]
        /\ Responded200(t) /\ reqs[t].body.log_entry = normal_logs[5]


\* The points of the seed corpus under the deterministic embedder.
BaselinePoints ==
    { PointStruct(k - 1, [len |-> VECTOR_SIZE, dir |-> TextDir(normal_logs[k])],
                  [log |-> normal_logs[k]]) : k \in 1..Len(normal_logs) }

BaselineCollection == [exists |-> TRUE, size |-> VECTOR_SIZE, pts |-> BaselinePoints]

\* C12 (baseline idempotence): every successful run of the initializer,
\* the first as well as one that follows a successful run, leaves the
\* collection holding exactly the seed points, whatever it held before; the
\* searches of identical requests therefore see the same collection.
BaselineIdempotence ==
    (pc \in {"bind", "serving"} /\ upsertReq.ok) =>
        /\ coll = BaselineCollection
        /\ \A log \in RequestLogs :
               LET q == [len |-> VECTOR_SIZE, dir |-> TextDir(log)]
               IN  SearchOutcomes(coll, q) = SearchOutcomes(BaselineCollection, q)

\* A second successful initialization right after a successful one.
BaselineIdempotence_witness ==
    /\ RunNo = 1 /\ initLog[1].ok
    /\ pc = "bind" /\ upsertReq.ok


\* C13 as stated: a delete that fails because the collection is absent is
\* ignored and initialization goes on to the create; any other error of the
\* delete (the store is unreachable) and any error of the create ends
\* initialization with a fatal error.
DeleteErrorPolicy ==
    \A k \in 1..Len(initLog) :
        /\ (initLog[k].op = "delete" /\ initLog[k].answer = "absent" /\ k = Len(initLog)) =>
               pc = "init_create"
        /\ (initLog[k].op = "delete" /\ initLog[k].answer = "unreachable") =>
               (pc = "exited" /\ exitCode = 1 /\ k = Len(initLog))
        /\ (initLog[k].op = "create" /\ ~initLog[k].ok) =>
               (pc = "exited" /\ exitCode = 1)


\* The number of steps `op` in the log of initialization.
StepCount(op) == Cardinality({ k \in 1..Len(initLog) : initLog[k].op = op })

\* C14: a successful initialization has issued exactly one upsert, with
\* wait=true, of one point per seed in corpus order: the point of the i-th
\* seed (from zero) has id i, a vector the embedding of that seed returned
\* and the payload {"log": L_i}; the seeds were embedded in order, each
\* once, all before the upsert.
SingleOrderedUpsert ==
    upsertReq.ok =>
        /\ upsertReq.sent /\ upsertReq.wait
        /\ StepCount("upsert") = 1
        /\ Len(upsertReq.points) = Len(normal_logs)
        /\ \A k \in 1..Len(normal_logs) :
               /\ upsertReq.points[k].id = k - 1
               /\ upsertReq.points[k].payload = [log |-> normal_logs[k]]
               /\ \E resp \in UpstreamResponses(normal_logs[k]) :
                      /\ get_embedding(resp).ok
                      /\ upsertReq.points[k].vector = get_embedding(resp).value
        /\ Len(initLog) = 2 * Len(normal_logs) + 3
        /\ initLog[1].op = "delete"
        /\ initLog[2] = Step("create", 0, TRUE)
        /\ \A k \in 1..Len(normal_logs) :
               /\ initLog[2 * k + 1] = Step("embed", k - 1, TRUE)
               /\ initLog[2 * k + 2] = Step("payload", k - 1, TRUE)
        /\ initLog[Len(initLog)] = Step("upsert", 0, TRUE)

\* Initialization has just succeeded.
SingleOrderedUpsert_witness ==
    /\ pc = "bind" /\ upsertReq.ok
    /\ Len(upsertReq.points) = Len(normal_logs)


\* C15: serving never mutates the baseline.  While the process serves,
\* whatever requests have run, succeeded or failed, the collection holds
\* exactly the points the initialization upserted, and no delete, create
\* or upsert has been issued beyond the initialization's own.
ServingKeepsBaseline ==
    pc = "serving" =>
        /\ coll = [exists |-> TRUE, size |-> VECTOR_SIZE, pts |-> RangeOf(upsertReq.points)]
        /\ StepCount("delete") = 1 /\ StepCount("create") = 1 /\ StepCount("upsert") = 1

\* A request answered 200 and a request answered 500, both finished.
ServingKeepsBaseline_witness ==
    /\ pc = "serving"
    /\ \E r, t \in Reqs :
           /\ Responded200(r) /\ ~reqs[r].resp.is_anomalous
           /\ reqs[t].pc = "done" /\ reqs[t].resp.status = 500


\* C16 (no retries): a request issues at most one embedding call and at
\* most one search, which returns at most one neighbour (limit 1), and is
\* finished as soon as one of them fails; initialization issues at most one
\* delete, one create, one upsert and one embedding call per seed.
NoRetries ==
    /\ \A r \in Reqs :
           /\ reqs[r].embedCalls <= 1
           /\ reqs[r].searchCalls <= 1
           /\ Len(reqs[r].result) <= 1
           /\ EmbedFailed(r) => (reqs[r].pc = "done" /\ reqs[r].searchCalls = 0)
           /\ reqs[r].search = "err" => reqs[r].pc = "done"
    /\ StepCount("delete") <= 1
    /\ StepCount("create") <= 1
    /\ StepCount("upsert") <= 1
    /\ \A i \in 0..(Len(normal_logs) - 1) :
           Cardinality({ k \in 1..Len(initLog) :
                           initLog[k].op = "embed" /\ initLog[k].seed = i }) <= 1

\* One request whose embedding failed and one whose search failed.
NoRetries_witness ==
    \E r, t \in Reqs :
        /\ EmbedFailed(r) /\ reqs[r].embedCalls = 1
        /\ reqs[t].search = "err" /\ reqs[t].searchCalls = 1 /\ reqs[t].embedCalls = 1


\* The response a request's own body, own embedding answer and own search
\* result call for.
OwnResponse(q) ==
    LET x == JsonExtract(q.body)
    IN  IF ~x.ok THEN [NoResponse EXCEPT !.status = x.status]
        ELSE IF ~get_embedding(q.upstream).ok THEN ErrorResponse("Failed to get embedding")
        ELSE IF q.search = "err" THEN ErrorResponse("Qdrant search failed")
        ELSE [status |-> 200, message |-> "",
              is_anomalous |-> (Len(q.result) = 0 \/ q.result[1].score < ANOMALY_THRESHOLD),
              score |-> IF Len(q.result) = 0 THEN 0 ELSE q.result[1].score,
              log_entry |-> q.body.log_entry]

\* Every finished request carries the response its own inputs call for.
OwnResponseOnly ==
    \A r \in Reqs :
        reqs[r].pc = "done" =>
            /\ reqs[r].resp = OwnResponse(reqs[r])
            /\ JsonExtract(reqs[r].body).ok => reqs[r].embedCalls = 1
            /\ reqs[r].resp.status = 200 => reqs[r].searchCalls = 1

\* A step of one request leaves every other request as it was, and the
\* server goes on serving.
OneRequestPerStep ==
    /\ \A r, t \in Reqs : (reqs'[r] # reqs[r] /\ t # r) => reqs'[t] = reqs[t]
    /\ pc = "serving" => (pc' = "serving" /\ listener' /\ exitCode' = -1)

\* C17 (request independence): under any interleaving, the response of a
\* request is determined by its own log_entry and its own embedding and
\* search results; a step of one request, a failure included, changes no
\* other request, and the server keeps serving.
RequestIndependence == []OwnResponseOnly /\ [][OneRequestPerStep]_vars

\* One request answered 500 and another, with the same log entry, answered 200.
RequestIndependence_witness ==
    /\ pc = "serving"
    /\ \E r, t \in Reqs :
           /\ reqs[r].pc = "done" /\ reqs[r].resp.status = 500
           /\ Responded200(t)
           /\ reqs[r].body = reqs[t].body


\* The embedding service's answer is an error answer: a status outside 2xx,
\* or a body that is not JSON holding an embedding array.
UpstreamErrorAnswer(resp) ==
    \/ resp.kind = "http" /\ ~(resp.status \in 200..299)
    \/ resp.kind = "http" /\ resp.body # "embedding"

\* C18 as stated: get_embedding fails on every such answer, so a request
\* that received one is answered 500 "Failed to get embedding" and never
\* searches with a vector taken from it.
UpstreamErrorFailsEmbedding ==
    \A r \in Reqs :
        (reqs[r].embedCalls > 0 /\ UpstreamErrorAnswer(reqs[r].upstream)) =>
            /\ ~get_embedding(reqs[r].upstream).ok
            /\ reqs[r].pc = "done"
            /\ reqs[r].resp = ErrorResponse("Failed to get embedding")
            /\ reqs[r].searchCalls = 0


\* This process has created the collection.
CollectionCreated ==
    \E k \in 1..Len(initLog) : initLog[k].op = "create" /\ initLog[k].ok

\* C19: the baseline is never partially populated.  Once this process has
\* created the collection, it exists and holds either no point or one point
\* per seed, under the ids 0..4; when initialization then fails at an
\* embedding, a payload or the upsert, the collection is left existing and
\* empty.
NoPartialBaseline ==
    CollectionCreated =>
        /\ coll.exists
        /\ \/ coll.pts = {}
           \/ /\ Cardinality(coll.pts) = Len(normal_logs)
              /\ { p.id : p \in coll.pts } = 0..(Len(normal_logs) - 1)
              /\ \A p \in coll.pts : p.payload = [log |-> normal_logs[p.id + 1]]
        /\ InitFailed => coll = EmptyCollection
        /\ coll.pts # {} => upsertReq.ok

\* Initialization failed at the upsert, after all five seeds were embedded.
NoPartialBaseline_witness ==
    /\ pc = "exited"
    /\ CollectionCreated
    /\ Len(points) = Len(normal_logs)
    /\ initLog[Len(initLog)] = Step("upsert", 0, FALSE)
    /\ coll = EmptyCollection


\* The request was accepted by the handler: its body passed the extractor.
Accepted(r) == reqs[r].pc \in {"embed", "search"}

\* The request has one of the handler's three responses.
Answered(r) ==
    /\ reqs[r].pc = "done"
    /\ \/ /\ reqs[r].resp.status = 200
          /\ reqs[r].search = "ok"
       \/ reqs[r].resp = ErrorResponse("Failed to get embedding") /\ reqs[r].searchCalls = 0
       \/ reqs[r].resp = ErrorResponse("Qdrant search failed") /\ reqs[r].search = "err"

\* Within a request the embedding call has returned a vector before the
\* search is issued, and the search has returned before a 200 is produced.
EmbedThenSearchThenRespond ==
    \A r \in Reqs :
        /\ (reqs[r].pc = "search" \/ reqs[r].searchCalls > 0) =>
               reqs[r].embedCalls = 1 /\ get_embedding(reqs[r].upstream).ok
        /\ reqs[r].resp.status = 200 =>
               reqs[r].embedCalls = 1 /\ reqs[r].searchCalls = 1 /\ reqs[r].search = "ok"

\* A request that is done keeps its response.
ResponseIsFinal ==
    \A r \in Reqs : reqs[r].pc = "done" => reqs'[r] = reqs[r]

\* C20: when every upstream call returns, every request the handler accepted
\* eventually gets one response (200, 500 from the embedding step or 500
\* from the search step) and keeps it; the embedding call completes before
\* the search is issued and the search before a 200 is produced.
EveryRequestAnswered ==
    /\ \A r \in Reqs : Accepted(r) ~> Answered(r)
    /\ []EmbedThenSearchThenRespond
    /\ [][ResponseIsFinal]_vars

\* All requests were accepted and answered, one of them with a 200 and one
\* with the 500 of the search step.
EveryRequestAnswered_witness ==
    /\ \A r \in Reqs : reqs[r].embedCalls = 1 /\ Answered(r)
    /\ \E r \in Reqs : reqs[r].resp.status = 200 /\ reqs[r].searchCalls = 1
    /\ \E r \in Reqs : reqs[r].resp = ErrorResponse("Qdrant search failed")

====
